---- MODULE Spec2Model ----
(***************************************************************************)
(* Model of the aws-app repository.                                        *)
(*                                                                         *)
(*  - bin/aws-infra.ts and lib/aws-infra-stack.ts (lines 28-296): the      *)
(*    AwsInfraStack constructor, one action per statement, building the    *)
(*    resource graph (constructs, depends-on edges, security rules, ...).  *)
(*  - lib/aws-infra-stack.ts (lines 298-346): the backend handler, its     *)
(*    module-level script and its asynchronous callbacks.                  *)
(***************************************************************************)
EXTENDS Naturals, FiniteSets, Sequences, TLC

\* ------------------------------------------------------------------------
\* Bounds of the model
\* ------------------------------------------------------------------------

\* The largest number of availability zones a region offers to the stack.
MaxRegionAzs == 3

\* The smallest number of availability zones a region offers (every AWS
\* region has at least two).
MinRegionAzs == 2

\* The number of HTTP requests the backend receives.
MaxRequests == 3

\* The number of distinct values SELECT NOW() can return.
MaxTime == 2

\* ------------------------------------------------------------------------
\* State
\* ------------------------------------------------------------------------

VARIABLES
    \* --- the process environment of bin/aws-infra.ts
    envAccount,     \* process.env.CDK_DEFAULT_ACCOUNT ("" when unset)
    envRegion,      \* process.env.CDK_DEFAULT_REGION ("" when unset)
    regionAzs,      \* the number of availability zones the region offers
    \* --- the constructor of AwsInfraStack
    pc,             \* the statement the constructor executes next
    stackEnv,       \* the env props of the stack
    nodes,          \* construct id -> node type, for every construct created
    edges,          \* depends-on edges <<from, to>> between constructs
    subnets,        \* the Subdivisions of the VPC
    natGateways,    \* the availability zones that hold a NAT gateway
    generatedSecrets, \* the Secrets Manager secrets and what they generate
    dataStores,     \* the properties of the database instances
    entryPoints,    \* the load balancers, each with its target workload
    environment,    \* plain environment bindings of the containers
    secrets,        \* secret (by-reference) bindings of the containers
    logging,        \* container -> log group
    rules,          \* ingress security rules
    grants,         \* managed policies added to execution roles
    webAcls,        \* web ACL id -> its properties
    associations,   \* web ACL associations
    services,       \* Fargate service id -> its properties
    subscriptions,  \* subscriptions of the topics
    alarms,         \* alarm id -> its properties
    \* --- the backend handler
    bpc,            \* the statement the module-level script executes next
    conn,           \* the state of client.connect()
    routes,         \* the registered routes
    listening,      \* whether app.listen has been called
    console,        \* the lines written to the console
    reqs            \* request id -> the state of that request

stackVars == <<pc, stackEnv, nodes, edges, subnets, natGateways,
               generatedSecrets, dataStores,
               entryPoints, environment, secrets, logging, rules, grants,
               webAcls, associations, services, subscriptions, alarms>>

envVars == <<envAccount, envRegion, regionAzs>>

backendVars == <<bpc, conn, routes, listening, console, reqs>>

vars == <<envAccount, envRegion, regionAzs, pc, stackEnv, nodes, edges,
          subnets, natGateways, generatedSecrets, dataStores, entryPoints,
          environment, secrets, logging, rules, grants, webAcls, associations, services,
          subscriptions, alarms, bpc, conn, routes, listening, console,
          reqs>>

\* ------------------------------------------------------------------------
\* Values held by the properties of a construct
\* ------------------------------------------------------------------------

\* A literal value written in the source.
Lit(v) == [kind |-> "literal", of |-> "", v |-> v]

\* An attribute of another construct, resolved by reference (a token).
Attr(node, a) == [kind |-> "attr", of |-> node, v |-> a]

\* rds.Credentials.fromSecret / ecs.Secret.fromSecretsManager: a reference to
\* a field of a Secrets Manager secret.
SecretRef(secret, field) == [kind |-> "secretRef", of |-> secret, v |-> field]

Min(a, b) == IF a <= b THEN a ELSE b

\* Adds the construct `id` of the given type.
AddNode(id, type) == (id :> type) @@ nodes

\* The depends-on edges from `id` to each construct in `targets`.
DependsOn(id, targets) == {<<id, t>> : t \in targets}

\* ------------------------------------------------------------------------
\* bin/aws-infra.ts
\* ------------------------------------------------------------------------

\* region: process.env.CDK_DEFAULT_REGION || 'eu-central-1'
DefaultRegion(r) == IF r = "" THEN "eu-central-1" ELSE r

\* Stack.availabilityZones: an environment-agnostic stack (no account) sees
\* two zones, otherwise the zones of the region.
StackAvailabilityZones ==
    IF stackEnv.account = "" THEN 2 ELSE regionAzs

\* new AwsInfraStack(app, 'AwsInfraStack', {env: ...}); super(scope, id, props)
AwsInfraStackNew ==
    /\ pc = "AwsInfraStack"
    /\ stackEnv' = [account |-> envAccount, region |-> DefaultRegion(envRegion)]
    /\ nodes' = AddNode("AwsInfraStack", "Stack")
    /\ pc' = "AppVpc"
    /\ UNCHANGED <<generatedSecrets, edges, subnets, natGateways, dataStores, entryPoints,
                   environment, secrets, logging, rules, grants, webAcls,
                   associations, services, subscriptions, alarms>>
    /\ UNCHANGED envVars
    /\ UNCHANGED backendVars

\* ------------------------------------------------------------------------
\* NETWORKING (VPC & Subnets)
\* ------------------------------------------------------------------------

\* The props of AppVpc.
AppVpcProps ==
    [maxAzs |-> 2,
     natGateways |-> 1,
     subnetConfiguration |->
        << [name |-> "Public",  subnetType |-> "PUBLIC", cidrMask |-> 24],
           [name |-> "Private", subnetType |-> "PRIVATE_WITH_EGRESS",
            cidrMask |-> 24] >>]

\* A VPC that gives private subnets only to the zones that hold a NAT
\* gateway.
VpcSubnets_PrivatePerGateway(props, azCount) ==
    { [vpc |-> "AppVpc",
       name |-> props.subnetConfiguration[i].name,
       subnetType |-> props.subnetConfiguration[i].subnetType,
       cidrMask |-> props.subnetConfiguration[i].cidrMask,
       az |-> z] :
         i \in 1..Len(props.subnetConfiguration), z \in 1..azCount }
    \ { n \in [vpc : {"AppVpc"}, name : {"Private"},
               subnetType : {"PRIVATE_WITH_EGRESS"}, cidrMask : {24},
               az : 1..azCount] : n.az > props.natGateways }

\* The subnets of a VPC: one per entry of the subnet configuration and per
\* availability zone in use.
VpcSubnets(props, azCount) ==
    { [vpc |-> "AppVpc",
       name |-> props.subnetConfiguration[i].name,
       subnetType |-> props.subnetConfiguration[i].subnetType,
       cidrMask |-> props.subnetConfiguration[i].cidrMask,
       az |-> z] :
         i \in 1..Len(props.subnetConfiguration), z \in 1..azCount }

\* this.vpc = new ec2.Vpc(this, 'AppVpc', {...})
AppVpc ==
    /\ pc = "AppVpc"
    /\ LET azCount == Min(AppVpcProps.maxAzs, StackAvailabilityZones)
       IN  /\ subnets' = VpcSubnets(AppVpcProps, azCount)
           /\ natGateways' = 1..Min(AppVpcProps.natGateways, azCount)
    /\ nodes' = AddNode("AppVpc", "Network")
    /\ edges' = edges \cup DependsOn("AppVpc", {"AwsInfraStack"})
    /\ pc' = "DbCredentialsSecret"
    /\ UNCHANGED <<generatedSecrets, stackEnv, dataStores, entryPoints, environment, secrets,
                   logging, rules, grants, webAcls, associations, services,
                   subscriptions, alarms>>
    /\ UNCHANGED envVars
    /\ UNCHANGED backendVars

\* ------------------------------------------------------------------------
\* DATABASE (RDS + Secrets)
\* ------------------------------------------------------------------------

\* The props of DbCredentialsSecret.
DbCredentialsSecretProps ==
    [id |-> "DbCredentialsSecret",
     secretStringTemplate |-> {[key |-> "username", value |-> "postgres"]},
     generateStringKey |-> "password",
     excludePunctuation |-> TRUE]

\* const dbCredentialsSecret = new secretsManager.Secret(this,
\*     'DbCredentialsSecret', {generateSecretString: {...}})
DbCredentialsSecret ==
    /\ pc = "DbCredentialsSecret"
    /\ generatedSecrets' = generatedSecrets \cup {DbCredentialsSecretProps}
    /\ nodes' = AddNode("DbCredentialsSecret", "Credential")
    /\ edges' = edges \cup DependsOn("DbCredentialsSecret", {"AwsInfraStack"})
    /\ pc' = "PostgresInstance"
    /\ UNCHANGED <<stackEnv, subnets, natGateways, dataStores, entryPoints,
                   environment, secrets, logging, rules, grants, webAcls,
                   associations, services, subscriptions, alarms>>
    /\ UNCHANGED envVars
    /\ UNCHANGED backendVars

\* The props of PostgresInstance.
PostgresInstanceProps ==
    [id |-> "PostgresInstance",
     vpc |-> "AppVpc",
     subnetType |-> "PRIVATE_WITH_EGRESS",
     engine |-> "postgres",
     credentials |->
        [secret |-> "DbCredentialsSecret",
         username |-> SecretRef("DbCredentialsSecret", "username"),
         password |-> SecretRef("DbCredentialsSecret", "password")],
     allocatedStorage |-> 20,
     maxAllocatedStorage |-> 100,
     databaseName |-> "appdb",
     multiAz |-> FALSE,
     publiclyAccessible |-> FALSE,
     backupRetention |-> 0]

\* this.database = new rds.DatabaseInstance(this, 'PostgresInstance', {...})
PostgresInstance ==
    /\ pc = "PostgresInstance"
    /\ dataStores' = dataStores \cup {PostgresInstanceProps}
    /\ nodes' = AddNode("PostgresInstance", "DataStore")
    /\ edges' = edges \cup DependsOn("PostgresInstance",
                    {"AwsInfraStack", PostgresInstanceProps.vpc,
                     PostgresInstanceProps.credentials.secret})
    /\ pc' = "AppCluster"
    /\ UNCHANGED <<generatedSecrets, stackEnv, subnets, natGateways, entryPoints, environment,
                   secrets, logging, rules, grants, webAcls, associations,
                   services, subscriptions, alarms>>
    /\ UNCHANGED envVars
    /\ UNCHANGED backendVars

\* ------------------------------------------------------------------------
\* ECS CLUSTER and LOG GROUPS
\* ------------------------------------------------------------------------

\* The props of AppCluster.
AppClusterProps == [vpc |-> "AppVpc"]

\* this.ecsCluster = new ecs.Cluster(this, 'AppCluster', {vpc: this.vpc})
AppCluster ==
    /\ pc = "AppCluster"
    /\ nodes' = AddNode("AppCluster", "Cluster")
    /\ edges' = edges \cup DependsOn("AppCluster",
                    {"AwsInfraStack", AppClusterProps.vpc})
    /\ pc' = "BackendLogGroup"
    /\ UNCHANGED <<generatedSecrets, stackEnv, subnets, natGateways, dataStores, entryPoints,
                   environment, secrets, logging, rules, grants, webAcls,
                   associations, services, subscriptions, alarms>>
    /\ UNCHANGED envVars
    /\ UNCHANGED backendVars

\* const backendLogGroup = new logs.LogGroup(this, 'BackendLogGroup', {...})
BackendLogGroup ==
    /\ pc = "BackendLogGroup"
    /\ nodes' = AddNode("BackendLogGroup", "LogGroup")
    /\ edges' = edges \cup DependsOn("BackendLogGroup", {"AwsInfraStack"})
    /\ pc' = "FrontendLogGroup"
    /\ UNCHANGED <<generatedSecrets, stackEnv, subnets, natGateways, dataStores, entryPoints,
                   environment, secrets, logging, rules, grants, webAcls,
                   associations, services, subscriptions, alarms>>
    /\ UNCHANGED envVars
    /\ UNCHANGED backendVars

\* const frontendLogGroup = new logs.LogGroup(this, 'FrontendLogGroup', {...})
FrontendLogGroup ==
    /\ pc = "FrontendLogGroup"
    /\ nodes' = AddNode("FrontendLogGroup", "LogGroup")
    /\ edges' = edges \cup DependsOn("FrontendLogGroup", {"AwsInfraStack"})
    /\ pc' = "BackendService"
    /\ UNCHANGED <<generatedSecrets, stackEnv, subnets, natGateways, dataStores, entryPoints,
                   environment, secrets, logging, rules, grants, webAcls,
                   associations, services, subscriptions, alarms>>
    /\ UNCHANGED envVars
    /\ UNCHANGED backendVars

\* ------------------------------------------------------------------------
\* BACKEND (Fargate + ALB)
\* ------------------------------------------------------------------------

\* A backend service that receives the password in its plain environment.
BackendServiceProps_PlainPassword ==
    [cluster |-> "AppCluster",
     desiredCount |-> 1,
     cpu |-> 256,
     memoryLimitMiB |-> 512,
     publicLoadBalancer |-> TRUE,
     containerPort |-> 3000,
     environment |->
        { [key |-> "DB_NAME", value |-> Lit("appdb")],
          [key |-> "DB_HOST",
           value |-> Attr("PostgresInstance", "Endpoint.Address")],
          [key |-> "DB_PORT",
           value |-> Attr("PostgresInstance", "Endpoint.Port")],
          [key |-> "DB_PASSWORD",
           value |-> [kind |-> "literal", of |-> "DbCredentialsSecret",
                      v |-> "password"]] },
     secrets |->
        { [key |-> "DB_USER",
           value |-> SecretRef("DbCredentialsSecret", "username")] },
     logGroup |-> "BackendLogGroup"]

\* The props of BackendService.
BackendServiceProps ==
    [cluster |-> "AppCluster",
     desiredCount |-> 1,
     cpu |-> 256,
     memoryLimitMiB |-> 512,
     publicLoadBalancer |-> TRUE,
     containerPort |-> 3000,
     environment |->
        { [key |-> "DB_NAME", value |-> Lit("appdb")],
          [key |-> "DB_HOST",
           value |-> Attr("PostgresInstance", "Endpoint.Address")],
          [key |-> "DB_PORT",
           value |-> Attr("PostgresInstance", "Endpoint.Port")] },
     secrets |->
        { [key |-> "DB_USER",
           value |-> SecretRef("DbCredentialsSecret", "username")],
          [key |-> "DB_PASSWORD",
           value |-> SecretRef("DbCredentialsSecret", "password")] },
     logGroup |-> "BackendLogGroup"]

\* const backendService =
\*     new ecsPatterns.ApplicationLoadBalancedFargateService(this,
\*         'BackendService', {...})
\* The service and its load balancer are created by the one statement.
BackendService ==
    /\ pc = "BackendService"
    /\ LET p == BackendServiceProps
       IN  /\ nodes' = ("BackendService" :> "Workload") @@
                       ("BackendService/LB" :> "PublicEntryPoint") @@ nodes
           /\ entryPoints' = entryPoints \cup
                  {[id |-> "BackendService/LB", target |-> "BackendService",
                    public |-> p.publicLoadBalancer]}
           /\ services' = ("BackendService" :>
                  [kind |-> "load-balanced", cluster |-> p.cluster,
                   desiredCount |-> p.desiredCount,
                   assignPublicIp |-> FALSE,
                   subnetType |-> "PRIVATE_WITH_EGRESS",
                   securityGroups |-> {"BackendService"}]) @@ services
           /\ environment' = environment \cup
                  {[container |-> "BackendService", key |-> b.key,
                    value |-> b.value] : b \in p.environment}
           /\ secrets' = secrets \cup
                  {[container |-> "BackendService", key |-> b.key,
                    value |-> b.value] : b \in p.secrets}
           /\ logging' = logging \cup {<<"BackendService", p.logGroup>>}
           /\ edges' = edges
                  \cup DependsOn("BackendService/LB", {"AwsInfraStack"})
                  \cup DependsOn("BackendService",
                         {"AwsInfraStack", p.cluster, p.logGroup}
                         \cup {b.value.of : b \in
                                 {e \in p.environment :
                                    e.value.kind # "literal"}}
                         \cup {b.value.of : b \in p.secrets})
    /\ pc' = "BackendAddManagedPolicy"
    /\ UNCHANGED <<generatedSecrets, stackEnv, subnets, natGateways, dataStores, rules, grants,
                   webAcls, associations, subscriptions, alarms>>
    /\ UNCHANGED envVars
    /\ UNCHANGED backendVars

\* backendService.taskDefinition.obtainExecutionRole().addManagedPolicy(
\*     iam.ManagedPolicy.fromAwsManagedPolicyName(
\*         'AmazonEC2ContainerRegistryReadOnly'))
BackendAddManagedPolicy ==
    /\ pc = "BackendAddManagedPolicy"
    /\ grants' = grants \cup
           {<<"BackendService", "AmazonEC2ContainerRegistryReadOnly">>}
    /\ pc' = "DatabaseAllowFrom"
    /\ UNCHANGED <<generatedSecrets, stackEnv, nodes, edges, subnets, natGateways, dataStores,
                   entryPoints, environment, secrets, logging, rules,
                   webAcls, associations, services, subscriptions, alarms>>
    /\ UNCHANGED envVars
    /\ UNCHANGED backendVars

\* An ingress rule of the database that admits any IPv4 address.
DatabaseAllowFromRule_AnyIpv4 ==
    [target |-> "PostgresInstance",
     sourceKind |-> "cidr",
     source |-> "0.0.0.0/0",
     protocol |-> "tcp",
     port |-> 5432,
     description |-> "Allow backend ECS tasks to connect to PostgresSQL"]

\* The ingress rule of the database.
DatabaseAllowFromRule ==
    [target |-> "PostgresInstance",
     sourceKind |-> "workload",
     source |-> "BackendService",
     protocol |-> "tcp",
     port |-> 5432,
     description |-> "Allow backend ECS tasks to connect to PostgresSQL"]

\* this.database.connections.allowFrom(backendService.service,
\*     ec2.Port.tcp(5432), '...')
DatabaseAllowFrom ==
    /\ pc = "DatabaseAllowFrom"
    /\ LET r == DatabaseAllowFromRule
           id == "PostgresInstance/from BackendService"
       IN  /\ rules' = rules \cup {r}
           /\ nodes' = AddNode(id, "SecurityRule")
           /\ edges' = edges \cup DependsOn(id, {r.target, r.source})
    /\ pc' = "BackendWafAcl"
    /\ UNCHANGED <<generatedSecrets, stackEnv, subnets, natGateways, dataStores, entryPoints,
                   environment, secrets, logging, grants, webAcls,
                   associations, services, subscriptions, alarms>>
    /\ UNCHANGED envVars
    /\ UNCHANGED backendVars

\* ------------------------------------------------------------------------
\* WEB ACL (WAF for ALB)
\* ------------------------------------------------------------------------

\* const wafAcl = new wafv2.CfnWebACL(this, 'BackendWafAcl', {...})
BackendWafAcl ==
    /\ pc = "BackendWafAcl"
    /\ webAcls' = ("BackendWafAcl" :>
           [defaultAction |-> "allow", scope |-> "REGIONAL",
            rules |-> << [name |-> "AWS-AWSManagedRulesCommonRuleSet",
                          priority |-> 0,
                          managedRuleGroup |->
                              "AWSManagedRulesCommonRuleSet"] >>]) @@ webAcls
    /\ nodes' = AddNode("BackendWafAcl", "FirewallPolicy")
    /\ edges' = edges \cup DependsOn("BackendWafAcl", {"AwsInfraStack"})
    /\ pc' = "WafAssociation"
    /\ UNCHANGED <<generatedSecrets, stackEnv, subnets, natGateways, dataStores, entryPoints,
                   environment, secrets, logging, rules, grants,
                   associations, services, subscriptions, alarms>>
    /\ UNCHANGED envVars
    /\ UNCHANGED backendVars

\* An association with the load balancer of a service that has none.
WafAssociationProps_WrongBalancer ==
    [resourceArn |-> "FrontendService/LB", webAclArn |-> "BackendWafAcl"]

\* The props of WafAssociation.
WafAssociationProps ==
    [resourceArn |-> "BackendService/LB", webAclArn |-> "BackendWafAcl"]

\* new wafv2.CfnWebACLAssociation(this, 'WafAssociation', {...})
WafAssociation ==
    /\ pc = "WafAssociation"
    /\ associations' = associations \cup {WafAssociationProps}
    /\ nodes' = AddNode("WafAssociation", "FirewallBinding")
    /\ edges' = edges \cup DependsOn("WafAssociation",
                    {"AwsInfraStack", WafAssociationProps.resourceArn,
                     WafAssociationProps.webAclArn})
    /\ pc' = "FrontendSecurityGroup"
    /\ UNCHANGED <<generatedSecrets, stackEnv, subnets, natGateways, dataStores, entryPoints,
                   environment, secrets, logging, rules, grants, webAcls,
                   services, subscriptions, alarms>>
    /\ UNCHANGED envVars
    /\ UNCHANGED backendVars

\* ------------------------------------------------------------------------
\* FRONTEND (Fargate Task)
\* ------------------------------------------------------------------------

\* const frontendSG = new ec2.SecurityGroup(this, 'FrontendSecurityGroup',
\*     {vpc: this.vpc, ...})
FrontendSecurityGroup ==
    /\ pc = "FrontendSecurityGroup"
    /\ nodes' = AddNode("FrontendSecurityGroup", "SecurityGroup")
    /\ edges' = edges \cup DependsOn("FrontendSecurityGroup",
                    {"AwsInfraStack", "AppVpc"})
    /\ pc' = "FrontendAddIngressRule"
    /\ UNCHANGED <<stackEnv, subnets, natGateways, generatedSecrets,
                   dataStores, entryPoints, environment, secrets, logging,
                   rules, grants, webAcls, associations, services,
                   subscriptions, alarms>>
    /\ UNCHANGED envVars
    /\ UNCHANGED backendVars

\* The frontend's ingress rule, added to the database instead.
FrontendIngressRule_OnDatabase ==
    [target |-> "PostgresInstance",
     sourceKind |-> "cidr",
     source |-> "0.0.0.0/0",
     protocol |-> "tcp",
     port |-> 80,
     description |-> "Allow HTTP from public"]

\* The ingress rule of the frontend security group.
FrontendIngressRule ==
    [target |-> "FrontendSecurityGroup",
     sourceKind |-> "cidr",
     source |-> "0.0.0.0/0",
     protocol |-> "tcp",
     port |-> 80,
     description |-> "Allow HTTP from public"]

\* frontendSG.addIngressRule(ec2.Peer.anyIpv4(), ec2.Port.tcp(80), '...')
FrontendAddIngressRule ==
    /\ pc = "FrontendAddIngressRule"
    /\ LET r == FrontendIngressRule
           id == "FrontendSecurityGroup/from 0.0.0.0/0"
       IN  /\ rules' = rules \cup {r}
           /\ nodes' = AddNode(id, "SecurityRule")
           /\ edges' = edges \cup DependsOn(id, {r.target})
    /\ pc' = "FrontendTaskDef"
    /\ UNCHANGED <<stackEnv, subnets, natGateways, generatedSecrets,
                   dataStores, entryPoints, environment, secrets, logging,
                   grants, webAcls, associations, services, subscriptions,
                   alarms>>
    /\ UNCHANGED envVars
    /\ UNCHANGED backendVars

\* const frontendTaskDef = new ecs.FargateTaskDefinition(this,
\*     'FrontendTaskDef', {cpu: 256, memoryLimitMiB: 512})
FrontendTaskDef ==
    /\ pc = "FrontendTaskDef"
    /\ nodes' = AddNode("FrontendTaskDef", "TaskDefinition")
    /\ edges' = edges \cup DependsOn("FrontendTaskDef", {"AwsInfraStack"})
    /\ pc' = "FrontendContainer"
    /\ UNCHANGED <<stackEnv, subnets, natGateways, generatedSecrets,
                   dataStores, entryPoints, environment, secrets, logging,
                   rules, grants, webAcls, associations, services,
                   subscriptions, alarms>>
    /\ UNCHANGED envVars
    /\ UNCHANGED backendVars

\* frontendTaskDef.addContainer('FrontendContainer', {image: ...,
\*     logging: ecs.LogDrivers.awsLogs({logGroup: frontendLogGroup})})
FrontendContainer ==
    /\ pc = "FrontendContainer"
    /\ logging' = logging \cup {<<"FrontendTaskDef", "FrontendLogGroup">>}
    /\ edges' = edges \cup DependsOn("FrontendTaskDef", {"FrontendLogGroup"})
    /\ pc' = "FrontendService"
    /\ UNCHANGED <<stackEnv, nodes, subnets, natGateways, generatedSecrets,
                   dataStores, entryPoints, environment, secrets, rules,
                   grants, webAcls, associations, services, subscriptions,
                   alarms>>
    /\ UNCHANGED envVars
    /\ UNCHANGED backendVars

\* The props of FrontendService.
FrontendServiceProps ==
    [kind |-> "standalone",
     cluster |-> "AppCluster",
     taskDefinition |-> "FrontendTaskDef",
     desiredCount |-> 1,
     assignPublicIp |-> TRUE,
     subnetType |-> "PUBLIC",
     securityGroups |-> {"FrontendSecurityGroup"}]

\* new ecs.FargateService(this, 'FrontendService', {...})
FrontendService ==
    /\ pc = "FrontendService"
    /\ LET p == FrontendServiceProps
       IN  /\ services' = ("FrontendService" :>
                  [kind |-> p.kind, cluster |-> p.cluster,
                   desiredCount |-> p.desiredCount,
                   assignPublicIp |-> p.assignPublicIp,
                   subnetType |-> p.subnetType,
                   securityGroups |-> p.securityGroups]) @@ services
           /\ edges' = edges \cup DependsOn("FrontendService",
                  {"AwsInfraStack", p.cluster, p.taskDefinition}
                  \cup p.securityGroups)
    /\ nodes' = AddNode("FrontendService", "Workload")
    /\ pc' = "FrontendAddManagedPolicy"
    /\ UNCHANGED <<stackEnv, subnets, natGateways, generatedSecrets,
                   dataStores, entryPoints, environment, secrets, logging,
                   rules, grants, webAcls, associations, subscriptions,
                   alarms>>
    /\ UNCHANGED envVars
    /\ UNCHANGED backendVars

\* frontendTaskDef.obtainExecutionRole().addManagedPolicy(
\*     iam.ManagedPolicy.fromAwsManagedPolicyName(
\*         'AmazonEC2ContainerRegistryReadOnly'))
FrontendAddManagedPolicy ==
    /\ pc = "FrontendAddManagedPolicy"
    /\ grants' = grants \cup
           {<<"FrontendTaskDef", "AmazonEC2ContainerRegistryReadOnly">>}
    /\ pc' = "AlarmTopic"
    /\ UNCHANGED <<stackEnv, nodes, edges, subnets, natGateways,
                   generatedSecrets, dataStores, entryPoints, environment,
                   secrets, logging, rules, webAcls, associations, services,
                   subscriptions, alarms>>
    /\ UNCHANGED envVars
    /\ UNCHANGED backendVars

\* ------------------------------------------------------------------------
\* MONITORING (CloudWatch + SNS)
\* ------------------------------------------------------------------------

\* const alarmTopic = new sns.Topic(this, 'AlarmTopic', {...})
AlarmTopic ==
    /\ pc = "AlarmTopic"
    /\ nodes' = AddNode("AlarmTopic", "NotificationTarget")
    /\ edges' = edges \cup DependsOn("AlarmTopic", {"AwsInfraStack"})
    /\ pc' = "AlarmTopicAddSubscription"
    /\ UNCHANGED <<stackEnv, subnets, natGateways, generatedSecrets,
                   dataStores, entryPoints, environment, secrets, logging,
                   rules, grants, webAcls, associations, services,
                   subscriptions, alarms>>
    /\ UNCHANGED envVars
    /\ UNCHANGED backendVars

\* alarmTopic.addSubscription(new subs.EmailSubscription('...'))
AlarmTopicAddSubscription ==
    /\ pc = "AlarmTopicAddSubscription"
    /\ subscriptions' = subscriptions \cup
           {[topic |-> "AlarmTopic", protocol |-> "email",
             endpoint |-> "serhii.slavita@icloud.com"]}
    /\ pc' = "BackendHighCpu"
    /\ UNCHANGED <<stackEnv, nodes, edges, subnets, natGateways,
                   generatedSecrets, dataStores, entryPoints, environment,
                   secrets, logging, rules, grants, webAcls, associations,
                   services, alarms>>
    /\ UNCHANGED envVars
    /\ UNCHANGED backendVars

\* The props of BackendHighCpu.
BackendHighCpuProps ==
    [metric |-> "BackendService",
     period |-> 1,
     threshold |-> 70,
     evaluationPeriods |-> 2,
     datapointsToAlarm |-> 2,
     comparisonOperator |-> "GREATER_THAN_THRESHOLD",
     actions |-> {}]

\* const backendAlarm = new cw.Alarm(this, 'BackendHighCpu', {...})
BackendHighCpu ==
    /\ pc = "BackendHighCpu"
    /\ alarms' = ("BackendHighCpu" :> BackendHighCpuProps) @@ alarms
    /\ nodes' = AddNode("BackendHighCpu", "Alarm")
    /\ edges' = edges \cup DependsOn("BackendHighCpu",
                    {"AwsInfraStack", BackendHighCpuProps.metric})
    /\ pc' = "BackendAddAlarmAction"
    /\ UNCHANGED <<stackEnv, subnets, natGateways, generatedSecrets,
                   dataStores, entryPoints, environment, secrets, logging,
                   rules, grants, webAcls, associations, services,
                   subscriptions>>
    /\ UNCHANGED envVars
    /\ UNCHANGED backendVars

\* The topic bound by backendAlarm.addAlarmAction.
BackendAlarmActionArn == "AlarmTopic"

\* backendAlarm.addAlarmAction({bind: () =>
\*     ({alarmActionArn: alarmTopic.topicArn})})
BackendAddAlarmAction ==
    /\ pc = "BackendAddAlarmAction"
    /\ alarms' = [alarms EXCEPT !["BackendHighCpu"].actions =
                      @ \cup {BackendAlarmActionArn}]
    /\ edges' = edges \cup
                    DependsOn("BackendHighCpu", {BackendAlarmActionArn})
    /\ pc' = "RdsHighCpu"
    /\ UNCHANGED <<stackEnv, nodes, subnets, natGateways, generatedSecrets,
                   dataStores, entryPoints, environment, secrets, logging,
                   rules, grants, webAcls, associations, services,
                   subscriptions>>
    /\ UNCHANGED envVars
    /\ UNCHANGED backendVars

\* The props of RdsHighCpu.
RdsHighCpuProps ==
    [metric |-> "PostgresInstance",
     period |-> 1,
     threshold |-> 70,
     evaluationPeriods |-> 2,
     datapointsToAlarm |-> 2,
     comparisonOperator |-> "GREATER_THAN_THRESHOLD",
     actions |-> {}]

\* const rdsCpuAlarm = new cw.Alarm(this, 'RdsHighCpu', {...})
RdsHighCpu ==
    /\ pc = "RdsHighCpu"
    /\ alarms' = ("RdsHighCpu" :> RdsHighCpuProps) @@ alarms
    /\ nodes' = AddNode("RdsHighCpu", "Alarm")
    /\ edges' = edges \cup DependsOn("RdsHighCpu",
                    {"AwsInfraStack", RdsHighCpuProps.metric})
    /\ pc' = "RdsAddAlarmAction"
    /\ UNCHANGED <<stackEnv, subnets, natGateways, generatedSecrets,
                   dataStores, entryPoints, environment, secrets, logging,
                   rules, grants, webAcls, associations, services,
                   subscriptions>>
    /\ UNCHANGED envVars
    /\ UNCHANGED backendVars

\* An alarm action bound to a topic of its own.
RdsAlarmActionArn_OwnTopic == "RdsAlarmTopic"

\* The topic bound by rdsCpuAlarm.addAlarmAction.
RdsAlarmActionArn == "AlarmTopic"

\* rdsCpuAlarm.addAlarmAction({bind: () =>
\*     ({alarmActionArn: alarmTopic.topicArn})})
RdsAddAlarmAction ==
    /\ pc = "RdsAddAlarmAction"
    /\ alarms' = [alarms EXCEPT !["RdsHighCpu"].actions =
                      @ \cup {RdsAlarmActionArn}]
    /\ edges' = edges \cup DependsOn("RdsHighCpu", {RdsAlarmActionArn})
    /\ pc' = "done"
    /\ UNCHANGED <<stackEnv, nodes, subnets, natGateways, generatedSecrets,
                   dataStores, entryPoints, environment, secrets, logging,
                   rules, grants, webAcls, associations, services,
                   subscriptions>>
    /\ UNCHANGED envVars
    /\ UNCHANGED backendVars

\* The constructor of AwsInfraStack, statement by statement.
StackNext ==
    \/ AwsInfraStackNew
    \/ AppVpc
    \/ DbCredentialsSecret
    \/ PostgresInstance
    \/ AppCluster
    \/ BackendLogGroup
    \/ FrontendLogGroup
    \/ BackendService
    \/ BackendAddManagedPolicy
    \/ DatabaseAllowFrom
    \/ BackendWafAcl
    \/ WafAssociation
    \/ FrontendSecurityGroup
    \/ FrontendAddIngressRule
    \/ FrontendTaskDef
    \/ FrontendContainer
    \/ FrontendService
    \/ FrontendAddManagedPolicy
    \/ AlarmTopic
    \/ AlarmTopicAddSubscription
    \/ BackendHighCpu
    \/ BackendAddAlarmAction
    \/ RdsHighCpu
    \/ RdsAddAlarmAction

\* ------------------------------------------------------------------------
\* The backend handler
\* ------------------------------------------------------------------------

\* The requests the backend receives.
Requests == 1..MaxRequests

\* The values SELECT NOW() returns.
Times == 1..MaxTime

\* A request that has not arrived yet.
NoRequest ==
    [route |-> "", st |-> "new", q |-> "none", now |-> 0, detail |-> "",
     responses |-> <<>>]

\* res.json({message: 'Hello from backend (Node.js)', time: result.rows[0].now})
HelloBody(now) ==
    [status |-> 200, type |-> "json",
     body |-> {[key |-> "message", value |-> "Hello from backend (Node.js)",
                now |-> 0],
               [key |-> "time", value |-> "", now |-> now]}]

\* res.status(500).json({error: 'Database error', detail: err.message})
ErrorBody(detail) ==
    [status |-> 500, type |-> "json",
     body |-> {[key |-> "error", value |-> "Database error", now |-> 0],
               [key |-> "detail", value |-> detail, now |-> 0]}]

\* res.send('Backend is running')
RootBody ==
    [status |-> 200, type |-> "text",
     body |-> {[key |-> "", value |-> "Backend is running", now |-> 0]}]

\* const client = new Client(dbConfig); client.connect(): the connection
\* attempt starts and settles after the script has run.
ClientConnect ==
    /\ bpc = "connect"
    /\ conn' = "connecting"
    /\ bpc' = "hello"
    /\ UNCHANGED <<routes, listening, console, reqs>>
    /\ UNCHANGED envVars
    /\ UNCHANGED stackVars

\* app.get('/api/hello', async (req, res) => {...})
RegisterHello ==
    /\ bpc = "hello"
    /\ routes' = routes \cup {"/api/hello"}
    /\ bpc' = "root"
    /\ UNCHANGED <<conn, listening, console, reqs>>
    /\ UNCHANGED envVars
    /\ UNCHANGED stackVars

\* app.get('/', (req, res) => {...})
RegisterRoot ==
    /\ bpc = "root"
    /\ routes' = routes \cup {"/"}
    /\ bpc' = "listen"
    /\ UNCHANGED <<conn, listening, console, reqs>>
    /\ UNCHANGED envVars
    /\ UNCHANGED stackVars

\* app.listen(PORT, () => {console.log(`Backend listening on port ${PORT}`)})
AppListen ==
    /\ bpc = "listen"
    /\ listening' = TRUE
    /\ console' = console \cup {"Backend listening on port"}
    /\ bpc' = "done"
    /\ UNCHANGED <<conn, routes, reqs>>
    /\ UNCHANGED envVars
    /\ UNCHANGED stackVars

\* What the settled connection does to the queries queued on the client:
\* a connected client sends them, a failed one rejects them.
SettleQueued(sent) ==
    [r \in Requests |->
        IF reqs[r].q = "queued"
        THEN IF sent
             THEN [reqs[r] EXCEPT !.q = "sent"]
             ELSE [reqs[r] EXCEPT !.q = "err",
                                  !.detail = "connection error"]
        ELSE reqs[r]]

\* client.connect().then(() => {console.log('Connected to PostgreSQL
\* database')})
ConnectThen ==
    /\ bpc = "done"
    /\ conn = "connecting"
    /\ conn' = "connected"
    /\ console' = console \cup {"Connected to PostgreSQL database"}
    /\ reqs' = SettleQueued(TRUE)
    /\ UNCHANGED <<bpc, routes, listening>>
    /\ UNCHANGED envVars
    /\ UNCHANGED stackVars

\* client.connect().catch((err) => {console.error('Error connecting to
\* PostgreSQL:', err.message)})
ConnectCatch ==
    /\ bpc = "done"
    /\ conn = "connecting"
    /\ conn' = "failed"
    /\ console' = console \cup {"Error connecting to PostgreSQL:"}
    /\ reqs' = SettleQueued(FALSE)
    /\ UNCHANGED <<bpc, routes, listening>>
    /\ UNCHANGED envVars
    /\ UNCHANGED stackVars

\* The state of a query issued by client.query on a client in state c:
\* queued while connecting, sent once connected, rejected after a
\* connection error.
ClientQuery(c) ==
    CASE c = "connecting" -> "queued"
      [] c = "connected"  -> "sent"
      [] OTHER            -> "err"

\* GET /api/hello arrives: the handler runs up to
\* await client.query('SELECT NOW()')
HelloRequest(r) ==
    /\ listening
    /\ "/api/hello" \in routes
    /\ reqs[r].st = "new"
    /\ reqs' = [reqs EXCEPT ![r] =
           [@ EXCEPT !.route = "/api/hello", !.st = "awaiting",
                     !.q = ClientQuery(conn),
                     !.detail = IF ClientQuery(conn) = "err"
                                THEN "connection error" ELSE ""]]
    /\ UNCHANGED <<bpc, conn, routes, listening, console>>
    /\ UNCHANGED envVars
    /\ UNCHANGED stackVars

\* The database answers the query of request r: a row, or an error.
QueryResult(r) ==
    /\ reqs[r].q = "sent"
    /\ \/ \E t \in Times :
            reqs' = [reqs EXCEPT ![r] = [@ EXCEPT !.q = "ok", !.now = t]]
       \/ reqs' = [reqs EXCEPT ![r] =
                      [@ EXCEPT !.q = "err", !.detail = "query error"]]
    /\ UNCHANGED <<bpc, conn, routes, listening, console>>
    /\ UNCHANGED envVars
    /\ UNCHANGED stackVars

\* A handler without its catch block: an error is answered like a row.
HelloResponse_NoCatch(q) == HelloBody(q.now)

\* The response the handler of GET /api/hello sends for a settled query.
HelloResponse(q) ==
    IF q.q = "ok" THEN HelloBody(q.now) ELSE ErrorBody(q.detail)

\* The handler of GET /api/hello resumes after the await: res.json(...) in
\* the try block, res.status(500).json(...) in the catch block.
HelloRespond(r) ==
    /\ reqs[r].st = "awaiting"
    /\ reqs[r].q \in {"ok", "err"}
    /\ reqs' = [reqs EXCEPT ![r] =
           [@ EXCEPT !.st = "done",
                     !.responses = Append(@, HelloResponse(reqs[r]))]]
    /\ UNCHANGED <<bpc, conn, routes, listening, console>>
    /\ UNCHANGED envVars
    /\ UNCHANGED stackVars

\* GET / arrives: res.send('Backend is running')
RootRequest(r) ==
    /\ listening
    /\ "/" \in routes
    /\ reqs[r].st = "new"
    /\ reqs' = [reqs EXCEPT ![r] =
           [@ EXCEPT !.route = "/", !.st = "done",
                     !.responses = Append(@, RootBody)]]
    /\ UNCHANGED <<bpc, conn, routes, listening, console>>
    /\ UNCHANGED envVars
    /\ UNCHANGED stackVars

\* The backend: its script, then its callbacks in any order.
BackendNext ==
    \/ ClientConnect
    \/ RegisterHello
    \/ RegisterRoot
    \/ AppListen
    \/ ConnectThen
    \/ ConnectCatch
    \/ \E r \in Requests : HelloRequest(r)
    \/ \E r \in Requests : QueryResult(r)
    \/ \E r \in Requests : HelloRespond(r)
    \/ \E r \in Requests : RootRequest(r)

\* ------------------------------------------------------------------------
\* Specification
\* ------------------------------------------------------------------------

Init ==
    /\ envAccount \in {"", "123456789012"}
    /\ envRegion \in {"", "eu-north-1", "us-east-1"}
    /\ regionAzs \in MinRegionAzs..MaxRegionAzs
    /\ pc = "AwsInfraStack"
    /\ stackEnv = [account |-> "", region |-> ""]
    /\ nodes = <<>>
    /\ edges = {}
    /\ subnets = {}
    /\ natGateways = {}
    /\ generatedSecrets = {}
    /\ dataStores = {}
    /\ entryPoints = {}
    /\ environment = {}
    /\ secrets = {}
    /\ logging = {}
    /\ rules = {}
    /\ grants = {}
    /\ webAcls = <<>>
    /\ associations = {}
    /\ services = <<>>
    /\ subscriptions = {}
    /\ alarms = <<>>
    /\ bpc = "connect"
    /\ conn = "idle"
    /\ routes = {}
    /\ listening = FALSE
    /\ console = {}
    /\ reqs = [r \in Requests |-> NoRequest]

\* The backend alone, in the environment the deployed stack gives it.
BackendInit ==
    /\ Init
    /\ envAccount = ""
    /\ envRegion = ""
    /\ regionAzs = MinRegionAzs

Next ==
    \/ StackNext

Spec == Init /\ [][Next]_vars

BackendSpec == BackendInit /\ [][BackendNext]_vars

\* The connection attempt settles, the database answers every query it is
\* sent, and the event loop runs every callback that is ready.
BackendFairness ==
    /\ WF_vars(ClientConnect \/ RegisterHello \/ RegisterRoot \/ AppListen)
    /\ WF_vars(ConnectThen \/ ConnectCatch)
    /\ \A r \in Requests : WF_vars(QueryResult(r))
    /\ \A r \in Requests : WF_vars(HelloRespond(r))

BackendLive == BackendSpec /\ BackendFairness

\* ------------------------------------------------------------------------
\* Properties of the resource graph
\* ------------------------------------------------------------------------

\* The constructs of type t.
NodesOfType(t) == {n \in DOMAIN nodes : nodes[n] = t}

\* The ingress rules whose target is the data store d.
RulesInto(d) == {r \in rules : r.target = d}

\* C1: every data store is not publicly accessible, and every ingress rule
\* into a data store has a workload (the backend service) as its source, on
\* the database port, never an address range; in every state of the
\* construction.
C1_DataStoreIsPrivate ==
    \A d \in dataStores :
        /\ d.publiclyAccessible = FALSE
        /\ \A r \in RulesInto(d.id) :
              /\ r.sourceKind = "workload"
              /\ r.source \in NodesOfType("Workload")
              /\ r.source = "BackendService"
              /\ r.protocol = "tcp"
              /\ r.port = 5432

\* The ingress rule into the database has been added.
C1_Witness ==
    /\ pc = "done"
    /\ \E d \in dataStores : RulesInto(d.id) # {}

\* The constructs that the edges E lead to from the constructs in S.
Successors(E, S) == {e[2] : e \in {x \in E : x[1] \in S}}

RECURSIVE ReachableFrom(_, _, _)
\* The constructs reached from S along at most k further edges of E.
ReachableFrom(E, S, k) ==
    IF k = 0 THEN S
    ELSE ReachableFrom(E, S \cup Successors(E, S), k - 1)

\* No construct depends, directly or not, on itself.
Acyclic(E) ==
    LET N == {e[1] : e \in E} \cup {e[2] : e \in E}
    IN  \A n \in N :
            n \notin ReachableFrom(E, Successors(E, {n}), Cardinality(N))

\* C2: a construct that a statement consumes exists before the statement
\* runs, every depends-on edge joins two constructs of the graph, and the
\* depends-on relation is acyclic.
C2_DependencyOrder ==
    /\ [][\A e \in edges' \ edges : e[2] \in DOMAIN nodes]_vars
    /\ [](\A e \in edges : e[1] \in DOMAIN nodes /\ e[2] \in DOMAIN nodes)
    /\ []Acyclic(edges)

\* The whole graph is built, with the edges of the last group: the alarms
\* depend on the service, the database and the topic.
C2_Witness ==
    /\ pc = "done"
    /\ {<<"BackendHighCpu", "BackendService">>,
        <<"RdsHighCpu", "PostgresInstance">>,
        <<"RdsHighCpu", "AlarmTopic">>,
        <<"WafAssociation", "BackendService/LB">>,
        <<"BackendService", "PostgresInstance">>,
        <<"PostgresInstance", "AppVpc">>} \subseteq edges

\* The bindings of the container c in the set of bindings B.
BindingsOf(B, c) == {b \in B : b.container = c}

\* C4: the password a secret generates appears nowhere as a literal: the
\* data store and the backend hold references to the secret (DB_USER and
\* DB_PASSWORD are secret bindings), and the plain environment of the
\* backend (DB_NAME, DB_HOST, DB_PORT) holds no field of the secret.
C4_SecretByReference ==
    \A g \in generatedSecrets :
        /\ \A d \in dataStores :
              /\ d.credentials.secret = g.id
              /\ d.credentials.password = SecretRef(g.id, g.generateStringKey)
              /\ d.credentials.username.kind = "secretRef"
        /\ \A b \in environment : b.value.of # g.id
        /\ \A b \in environment \cup secrets :
              b.value.of = g.id => b.value.kind = "secretRef"
        /\ "BackendService" \in DOMAIN nodes =>
              /\ {b.key : b \in BindingsOf(environment, "BackendService")}
                    = {"DB_NAME", "DB_HOST", "DB_PORT"}
              /\ BindingsOf(secrets, "BackendService") =
                    {[container |-> "BackendService", key |-> "DB_USER",
                      value |-> SecretRef(g.id, "username")],
                     [container |-> "BackendService", key |-> "DB_PASSWORD",
                      value |-> SecretRef(g.id, g.generateStringKey)]}

\* The secret, the data store and the backend service are all built.
C4_Witness ==
    /\ generatedSecrets # {}
    /\ dataStores # {}
    /\ BindingsOf(secrets, "BackendService") # {}
    /\ BindingsOf(environment, "BackendService") # {}

\* C5: the finished graph has 4 subdivisions, 1 data store that is not
\* publicly accessible, 2 workloads, 1 entry point, 1 firewall policy, and
\* exactly one rule into the database: from the backend on port 5432. The
\* rule of the frontend (0.0.0.0/0, port 80) does not reach the database.
C5_EndToEnd ==
    pc = "done" =>
        /\ Cardinality(subnets) = 4
        /\ Cardinality(dataStores) = 1
        /\ NodesOfType("DataStore") = {"PostgresInstance"}
        /\ \A d \in dataStores : d.publiclyAccessible = FALSE
        /\ Cardinality(NodesOfType("Workload")) = 2
        /\ services["BackendService"].kind = "load-balanced"
        /\ services["FrontendService"].kind = "standalone"
        /\ Cardinality(NodesOfType("PublicEntryPoint")) = 1
        /\ Cardinality(entryPoints) = 1
        /\ Cardinality(NodesOfType("FirewallPolicy")) = 1
        /\ Cardinality(RulesInto("PostgresInstance")) = 1
        /\ \A r \in RulesInto("PostgresInstance") :
              /\ r.sourceKind = "workload"
              /\ r.source = "BackendService"
              /\ r.port = 5432
        /\ \E r \in rules :
              /\ r.source = "0.0.0.0/0"
              /\ r.port = 80
              /\ r.target # "PostgresInstance"
        /\ "PostgresInstance" \notin
              services["FrontendService"].securityGroups

\* The graph is finished, in a region that offers more zones than the two
\* that the stack asks for.
C5_Witness ==
    /\ pc = "done"
    /\ stackEnv.account # ""
    /\ regionAzs > AppVpcProps.maxAzs
    /\ Cardinality(rules) = 2

\* The subnets of the given type.
SubnetsOfType(t) == {n \in subnets : n.subnetType = t}

\* C6: the network has as many public subnets as private subnets as
\* availability zones asked for, one of each per zone, with fewer NAT
\* gateways than zones.
C6_SubnetsPerZone ==
    "AppVpc" \in DOMAIN nodes =>
        /\ Cardinality(SubnetsOfType("PUBLIC")) = AppVpcProps.maxAzs
        /\ Cardinality(SubnetsOfType("PRIVATE_WITH_EGRESS"))
              = AppVpcProps.maxAzs
        /\ \A z \in 1..AppVpcProps.maxAzs :
              /\ Cardinality({n \in SubnetsOfType("PUBLIC") : n.az = z}) = 1
              /\ Cardinality({n \in SubnetsOfType("PRIVATE_WITH_EGRESS") :
                                 n.az = z}) = 1
        /\ Cardinality(natGateways) = AppVpcProps.natGateways

\* The network is built with one NAT gateway for two zones, in a region
\* that offers more zones than asked for.
C6_Witness ==
    /\ "AppVpc" \in DOMAIN nodes
    /\ Cardinality(natGateways) < Cardinality(SubnetsOfType("PUBLIC"))
    /\ stackEnv.account # ""
    /\ regionAzs > AppVpcProps.maxAzs

\* C9: there is never more than one notification target, and in the
\* finished graph the two alarms are distinct nodes that each have the one
\* notification target as their action.
C9_AlarmFanIn ==
    /\ Cardinality(NodesOfType("NotificationTarget")) <= 1
    /\ \A a \in DOMAIN alarms :
          alarms[a].actions \subseteq NodesOfType("NotificationTarget")
    /\ pc = "done" =>
          /\ NodesOfType("NotificationTarget") = {"AlarmTopic"}
          /\ NodesOfType("Alarm") = {"BackendHighCpu", "RdsHighCpu"}
          /\ alarms["BackendHighCpu"].actions = {"AlarmTopic"}
          /\ alarms["RdsHighCpu"].actions = {"AlarmTopic"}
          /\ alarms["BackendHighCpu"].metric # alarms["RdsHighCpu"].metric
          /\ {<<"BackendHighCpu", "AlarmTopic">>,
              <<"RdsHighCpu", "AlarmTopic">>} \subseteq edges

\* Both alarms are built and bound.
C9_Witness ==
    /\ pc = "done"
    /\ Cardinality(DOMAIN alarms) = 2
    /\ \A a \in DOMAIN alarms : alarms[a].actions # {}

\* ------------------------------------------------------------------------
\* Properties of the backend handler
\* ------------------------------------------------------------------------

\* The keys of the body of a response.
BodyKeys(resp) == {f.key : f \in resp.body}

\* At most one response per request, of the kind its route and the outcome
\* of its query call for; and the server listens once the script has run.
C10_Responses ==
    /\ bpc = "done" => listening
    /\ \A r \in Requests :
          LET q == reqs[r]
          IN  /\ Len(q.responses) <= 1
              /\ q.st = "done" <=> Len(q.responses) = 1
              /\ (q.st = "done" /\ q.route = "/api/hello") =>
                    /\ q.q \in {"ok", "err"}
                    /\ q.q = "ok" =>
                          /\ q.responses[1].status = 200
                          /\ q.responses[1].type = "json"
                          /\ BodyKeys(q.responses[1]) = {"message", "time"}
                          /\ \E f \in q.responses[1].body :
                                f.key = "time" /\ f.now = q.now
                    /\ q.q = "err" =>
                          /\ q.responses[1].status = 500
                          /\ q.responses[1].type = "json"
                          /\ BodyKeys(q.responses[1]) = {"error", "detail"}
              /\ (q.st = "done" /\ q.route = "/") =>
                    /\ q.q = "none"
                    /\ q.responses[1].status = 200
                    /\ q.responses[1].type = "text"
                    /\ \A f \in q.responses[1].body :
                          f.value = "Backend is running"

====
